---- MODULE Spec2Model ----
(***************************************************************************)
(* Three components of the webshop, each with its own specification:       *)
(*  Spec      the Seeder class of src/api/src/services/GameService.ts      *)
(*            (lines 242-351): seed() and truncate() against a pooled      *)
(*            DatabaseService.  One call runs at a time; records live in a *)
(*            heap and are referred to by reference, because seed()        *)
(*            mutates the generated records in place.                      *)
(*  SpecCart  CartPageComponent (src/web/src/components): clicks on the    *)
(*            remove buttons interleaved with the backend calls of the     *)
(*            removeItem calls in flight.                                  *)
(*  SpecGames GameService.getGames: the SQL text and the parameters of its *)
(*            two queries.                                                 *)
(* Every await of the code is a step boundary.                             *)
(***************************************************************************)
EXTENDS Integers, Sequences, FiniteSets, TLC

\* ---------------------------------------------------------------- bounds
MaxBatch == 2        \* largest count asked for / largest batch a generator returns
MaxCalls == 2        \* calls of seed()/truncate() in one run
NumConns == 2        \* connections of the pool behind openConnection()
FirstInsertId == 101 \* AUTO_INCREMENT value of the table at the start
MaxCart == 3         \* items of the cart getCart() answers with
MaxClicks == 2       \* clicks on remove buttons in one run
MaxTags == 2         \* tag ids in GetGamesOptions.tags, and the largest tag id
MaxPrice == 2        \* largest minPrice / maxPrice
MaxPage == 2         \* largest page and largest limit

\* ------------------------------------------------------------- constants
NoId == 0            \* `id?: number` absent
NoConn == 0          \* no connection acquired
Undefined == 0       \* `this.items[index]` past the end of the array
Absent == -1         \* an optional number of GetGamesOptions left out

Conns == 1..NumConns
Table == "games"             \* the seeder's own _table
OtherTable == "reviews"      \* another table of the same database
Tables == {Table, OtherTable}

VARIABLES
    devMode,        \* Seeder._devMode, fixed by the constructor
    overridesDev,   \* whether the concrete seeder overrides getRecordsDev
    held,           \* connections of the pool that are checked out
    fkChecks,       \* per connection: session variable FOREIGN_KEY_CHECKS
    rows,           \* per table: the identifiers of its rows
    autoInc,        \* next AUTO_INCREMENT identifier of Table
    heap,           \* record objects, indexed by reference
    groups,         \* the caller's completed upstream record groups
    pc,             \* position of the running call
    op,             \* "seed" | "truncate" | "none"
    count,          \* seed's parameter count
    seederRecords,  \* seed's rest parameter seederRecords
    conn,           \* the call's local `connection`
    records,        \* seed's local `records` (references)
    result,         \* the ResultSetHeader of the insert
    step,           \* truncate: index of the statement in flight
    outcome,        \* how the call ended
    returned,       \* the value seed resolved with
    log,            \* what the call did to the DatabaseService, in order
    genCalls,       \* the generator invocations of the call, in order
    calls,          \* calls made so far
    \* CartPageComponent (src/web/src/components/CartPageComponent.ts)
    cartPc,         \* "constructed" | "loading" | "shown"
    items,          \* this.items: the gameIds of the local cart, in order
    rendered,       \* per remove button of the shadow DOM: the gameId it was rendered for
    removals,       \* the removeItem calls in flight: [item, at]
    clicks,         \* per click so far: [renderedFor, item, removed, sent]
    deleted,        \* the gameIds sent to deleteCartItem, in order
    \* GameService.getGames (src/api/src/services/GameService.ts)
    gamesPc,        \* "idle" | "items" | "count" | "done"
    options,        \* the GetGamesOptions of the call
    sent,           \* the queries handed to DatabaseService.query: [text, params]
    gamesOutcome    \* how getGames ended

vars == <<devMode, overridesDev, held, fkChecks, rows, autoInc, heap, groups,
          pc, op, count, seederRecords, conn, records, result, step, outcome,
          returned, log, genCalls, calls>>

cartVars == <<cartPc, items, rendered, removals, clicks, deleted>>

gamesVars == <<gamesPc, options, sent, gamesOutcome>>

allVars == <<vars, cartVars, gamesVars>>

\* ------------------------------------------------------------ statements
NoStmt == [kind |-> "none", table |-> "", columns |-> <<>>, values |-> <<>>]
NoResult == [affectedRows |-> 0, insertId |-> NoId]

Stmt(kind, table) == [kind |-> kind, table |-> table, columns |-> <<>>, values |-> <<>>]

Event(type, c, stmt) == [type |-> type, conn |-> c, stmt |-> stmt]

\* Object.keys / Object.values of a record: `id` is a key only once assigned.
ObjectKeys(rec) ==
    IF rec.id = NoId THEN <<"name", "price">> ELSE <<"name", "price", "id">>

ObjectValues(rec) ==
    IF rec.id = NoId THEN <<rec.name, rec.price>> ELSE <<rec.name, rec.price, rec.id>>

\* ------------------------------------------------------------- generators
\* getRecords is abstract and getRecordsDev overridable: what a concrete
\* generator returns is an input.  It may throw, and it may return any number
\* of records whatever count it was given; seed only ever reads
\* records.length.  The records it returns are new objects.

\* Faulty variant: the mode flag is ignored.
SelectGeneratorDefault(dev) == "getRecords"

\* seed() picks the generator it calls by the mode flag.
SelectGenerator(dev) == IF dev THEN "getRecordsDev" ELSE "getRecords"

\* The arguments the default getRecordsDev hands on to getRecords.
GetRecordsDevArgs(c, sr) == [count |-> c, groups |-> sr]

GenCall(fn, caller, c, sr, ret) ==
    [fn |-> fn, caller |-> caller, count |-> c, groups |-> sr, ret |-> ret]

\* The generator invocations one seed() makes, given what the concrete
\* generator returned (ret).
GeneratorCalls(dev, ovr, c, sr, ret) ==
    LET sel == SelectGenerator(dev)
        fwd == GetRecordsDevArgs(c, sr)
    IN  IF sel = "getRecordsDev" /\ ~ovr
        THEN << GenCall("getRecordsDev", "seed", c, sr, ret),
                GenCall("getRecords", "getRecordsDev", fwd.count, fwd.groups, ret) >>
        ELSE << GenCall(sel, "seed", c, sr, ret) >>

\* A batch a concrete generator builds: new record objects without an id
\* (SeederRecord's `id?` is absent until seed assigns it), record i carrying
\* price i so that the order of the batch is observable.
NewRecords(len) ==
    [i \in 1..len |-> [name |-> IF i % 2 = 1 THEN "a" ELSE "b", price |-> i, id |-> NoId]]

\* References of the objects allocated for a batch of len records.
NewRefs(h, len) == [i \in 1..len |-> Len(h) + i]

\* ------------------------------------------------------------------ seed
\* `records.length === 0`
IsEmptyBatch(recs) == Len(recs) = 0

\* `Object.keys(records[0])`
InsertColumns(h, recs) == ObjectKeys(h[recs[1]])

\* Faulty variant: the value tuples are sent last record first.
InsertValuesReversed(h, recs) ==
    [i \in 1..Len(recs) |-> ObjectValues(h[recs[Len(recs) + 1 - i]])]

\* `records.map(record => Object.values(record))`
InsertValues(h, recs) == [i \in 1..Len(recs) |-> ObjectValues(h[recs[i]])]

InsertStmt(h, recs) ==
    [kind |-> "insert", table |-> Table,
     columns |-> InsertColumns(h, recs), values |-> InsertValues(h, recs)]

\* Faulty variant: the insert is sent without the empty-batch check.
SeedSendsInsertAlways(l, c, h, recs) == Append(l, Event("query", c, Stmt("insert", Table)))

\* What seed asks of the database once the generator has returned: nothing
\* for an empty batch (the early `return []`), else the one multi-row insert.
SeedSendsInsert(l, c, h, recs) ==
    IF IsEmptyBatch(recs) THEN l
    ELSE Append(l, Event("query", c, InsertStmt(h, recs)))

\* Faulty variant: only too few affected rows count as a mismatch.
CountMismatchLess(res, recs) == res.affectedRows < Len(recs)

\* `result.affectedRows !== records.length`
CountMismatch(res, recs) == res.affectedRows # Len(recs)

\* Faulty variant: the loop index is used as the reference, so the first
\* records of the heap are written instead of the batch.
AssignIdsByIndex(h, recs, insertId) ==
    [r \in 1..Len(h) |-> IF r <= Len(recs) THEN [h[r] EXCEPT !.id = insertId + (r - 1)]
                                           ELSE h[r]]

\* Faulty variant: the positional offset is dropped.
AssignIdsSame(h, recs, insertId) ==
    [r \in 1..Len(h) |-> IF \E i \in 1..Len(recs) : recs[i] = r
                         THEN [h[r] EXCEPT !.id = insertId] ELSE h[r]]

\* `for (i = 0; i < records.length; i++) records[i].id = result.insertId + i`
\* (i is 1-based here).  Written as the loop runs: a reference that occurs
\* twice keeps the last assignment.
RECURSIVE AssignIdsFrom(_, _, _, _)
AssignIdsFrom(h, recs, insertId, i) ==
    IF i > Len(recs) THEN h
    ELSE AssignIdsFrom([h EXCEPT ![recs[i]].id = insertId + (i - 1)],
                       recs, insertId, i + 1)

AssignIds(h, recs, insertId) == AssignIdsFrom(h, recs, insertId, 1)

Release(c) == Event("release", c, NoStmt)

\* seed's `finally { connection.release(); }`
SeedFinally(l, c) == Append(l, Release(c))

\* The prior groups a caller can pass: none, one completed group, or all
\* completed groups in the order they were seeded.
GroupArgs == {<<>>, groups} \cup { <<groups[i]>> : i \in 1..Len(groups) }

\* The pool after the call's latest act: a released connection is idle again.
PoolAfter(h, l) ==
    IF l # <<>> /\ l[Len(l)].type = "release" THEN h \ {l[Len(l)].conn} ELSE h

\* seed(count, ...seederRecords) up to the first await: openConnection()
\* resolves with a pooled connection or rejects.
SeedCall ==
    /\ pc = "idle"
    /\ calls < MaxCalls
    /\ \E c \in 0..MaxBatch, sr \in GroupArgs :
          /\ count' = c
          /\ seederRecords' = sr
    /\ op' = "seed"
    /\ calls' = calls + 1
    /\ records' = <<>>
    /\ returned' = <<>>
    /\ result' = NoResult
    /\ genCalls' = <<>>
    /\ step' = 0
    /\ \/ \E k \in Conns \ held :
             /\ held' = held \cup {k}
             /\ conn' = k
             /\ log' = << Event("acquire", k, NoStmt) >>
             /\ outcome' = "none"
             /\ pc' = "seed_generate"
       \/ /\ conn' = NoConn
          /\ log' = <<>>
          /\ outcome' = "ConnectionError"
          /\ pc' = "done"
          /\ UNCHANGED held
    /\ UNCHANGED <<devMode, overridesDev, fkChecks, rows, autoInc, heap, groups>>

\* The selected generator settles.  It throws, or returns a batch; an empty
\* batch makes seed return [] at once, a non-empty one sends the insert.
SeedGenerate ==
    /\ pc = "seed_generate"
    /\ \/ /\ genCalls' = GeneratorCalls(devMode, overridesDev, count, seederRecords, <<>>)
          /\ outcome' = "GeneratorError"
          /\ pc' = "done"
          /\ UNCHANGED <<heap, records, returned, log>>
       \/ \E len \in 0..MaxBatch :
             LET recs == NewRefs(heap, len)
                 h == heap \o NewRecords(len)
             IN  /\ heap' = h
                 /\ records' = recs
                 /\ genCalls' = GeneratorCalls(devMode, overridesDev, count, seederRecords, recs)
                 /\ log' = SeedSendsInsert(log, conn, h, recs)
                 /\ IF IsEmptyBatch(recs)
                    THEN /\ returned' = <<>>
                         /\ outcome' = "returned"
                         /\ pc' = "done"
                    ELSE /\ pc' = "seed_insert"
                         /\ UNCHANGED <<returned, outcome>>
    /\ UNCHANGED <<devMode, overridesDev, held, fkChecks, rows, autoInc, groups,
                   op, count, seederRecords, conn, result, step, calls>>

\* The insert settles.  It rejects, or resolves with a ResultSetHeader; then
\* the count check, the identifier assignment and the finally block run.
SeedInsertSettles ==
    /\ pc = "seed_insert"
    /\ \/ /\ outcome' = "QueryError"
          /\ UNCHANGED <<heap, returned, result, rows, autoInc>>
       \/ \E a \in 0..MaxBatch :
             LET res == [affectedRows |-> a, insertId |-> autoInc]
             IN  /\ result' = res
                 /\ rows' = [rows EXCEPT ![Table] = @ \cup (autoInc..(autoInc + a - 1))]
                 /\ autoInc' = autoInc + a
                 /\ IF CountMismatch(res, records)
                    THEN /\ outcome' = "InsertCountMismatch"
                         /\ UNCHANGED <<heap, returned>>
                    ELSE /\ heap' = AssignIds(heap, records, res.insertId)
                         /\ returned' = records
                         /\ outcome' = "returned"
    /\ log' = SeedFinally(log, conn)
    /\ held' = PoolAfter(held, log')
    /\ pc' = "done"
    /\ UNCHANGED <<devMode, overridesDev, fkChecks, groups, op, count,
                   seederRecords, conn, records, step, genCalls, calls>>

\* -------------------------------------------------------------- truncate

\* Faulty variant: rows are removed before enforcement is switched off.
TruncateStatementsSwapped ==
    << Stmt("TRUNCATE TABLE", Table),
       Stmt("SET FOREIGN_KEY_CHECKS = 0", ""),
       Stmt("SET FOREIGN_KEY_CHECKS = 1", "") >>

\* The statements of truncate()'s try block, in the order they are awaited.
TruncateStatements ==
    << Stmt("SET FOREIGN_KEY_CHECKS = 0", ""),
       Stmt("TRUNCATE TABLE", Table),
       Stmt("SET FOREIGN_KEY_CHECKS = 1", "") >>

\* Faulty variant: no finally block.
TruncateNoFinally(l, c) == l

\* truncate's `finally { connection.release(); }`
TruncateFinally(l, c) == Append(l, Release(c))

\* What a statement that succeeds does to the session and to the tables.
FkAfter(stmt, c) ==
    IF stmt.kind = "SET FOREIGN_KEY_CHECKS = 0" THEN [fkChecks EXCEPT ![c] = FALSE]
    ELSE IF stmt.kind = "SET FOREIGN_KEY_CHECKS = 1" THEN [fkChecks EXCEPT ![c] = TRUE]
    ELSE fkChecks

RowsAfter(stmt) ==
    IF stmt.kind = "TRUNCATE TABLE" THEN [rows EXCEPT ![stmt.table] = {}] ELSE rows

\* truncate() up to its first query: openConnection() resolves or rejects;
\* with a connection the first statement is sent.
TruncateCall ==
    /\ pc = "idle"
    /\ calls < MaxCalls
    /\ op' = "truncate"
    /\ calls' = calls + 1
    /\ count' = 0
    /\ seederRecords' = <<>>
    /\ records' = <<>>
    /\ returned' = <<>>
    /\ result' = NoResult
    /\ genCalls' = <<>>
    /\ \/ \E k \in Conns \ held :
             /\ held' = held \cup {k}
             /\ conn' = k
             /\ step' = 1
             /\ log' = << Event("acquire", k, NoStmt),
                          Event("query", k, TruncateStatements[1]) >>
             /\ outcome' = "none"
             /\ pc' = "truncate_query"
       \/ /\ conn' = NoConn
          /\ step' = 0
          /\ log' = <<>>
          /\ outcome' = "ConnectionError"
          /\ pc' = "done"
          /\ UNCHANGED held
    /\ UNCHANGED <<devMode, overridesDev, fkChecks, rows, autoInc, heap, groups>>

\* The statement in flight settles.  It rejects (the finally block releases
\* and the error propagates), or it takes effect and the next statement is
\* sent; after the last one the finally block releases and truncate returns.
TruncateQuerySettles ==
    /\ pc = "truncate_query"
    /\ \/ /\ outcome' = "QueryError"
          /\ log' = TruncateFinally(log, conn)
          /\ held' = PoolAfter(held, log')
          /\ pc' = "done"
          /\ UNCHANGED <<fkChecks, rows, autoInc, step>>
       \/ /\ fkChecks' = FkAfter(TruncateStatements[step], conn)
          /\ rows' = RowsAfter(TruncateStatements[step])
          /\ UNCHANGED autoInc
          /\ IF step < Len(TruncateStatements)
             THEN /\ step' = step + 1
                  /\ log' = Append(log, Event("query", conn, TruncateStatements[step + 1]))
                  /\ UNCHANGED <<held, pc, outcome>>
             ELSE /\ log' = TruncateFinally(log, conn)
                  /\ held' = PoolAfter(held, log')
                  /\ outcome' = "returned"
                  /\ pc' = "done"
                  /\ UNCHANGED step
    /\ UNCHANGED <<devMode, overridesDev, heap, groups, op, count, seederRecords,
                   conn, records, result, returned, genCalls, calls>>

\* ---------------------------------------------------------------- caller
\* The call has settled; the caller keeps a non-empty batch seed returned as
\* an upstream group for the seeders it runs next; the call's locals are gone.
CallerContinues ==
    /\ pc = "done"
    /\ pc' = "idle"
    /\ groups' = IF op = "seed" /\ outcome = "returned" /\ Len(returned) > 0
                 THEN Append(groups, returned)
                 ELSE groups
    /\ op' = "none"
    /\ count' = 0
    /\ seederRecords' = <<>>
    /\ conn' = NoConn
    /\ records' = <<>>
    /\ result' = NoResult
    /\ step' = 0
    /\ outcome' = "none"
    /\ returned' = <<>>
    /\ log' = <<>>
    /\ genCalls' = <<>>
    /\ UNCHANGED <<devMode, overridesDev, held, fkChecks, rows, autoInc, heap, calls>>

\* ------------------------------------------------------ CartPageComponent
\* `this.items[index]` (index is 1-based here)
ItemAt(its, index) == IF index <= Len(its) THEN its[index] ELSE Undefined

\* `this.items.splice(index, 1)`: past the end nothing is removed
Splice(its, index) ==
    [k \in 1..(IF index <= Len(its) THEN Len(its) - 1 ELSE Len(its)) |->
        IF k < index THEN its[k] ELSE its[k + 1]]

\* render(): one remove button per item, `onclick = () => this.removeItem(index)`;
\* the button captures the position, shown here with the item it stands for.
Render(its) == its

\* The carts getCart() can answer with: up to MaxCart distinct games.
Carts == { [k \in 1..n |-> k] : n \in 0..MaxCart }

\* connectedCallback() up to `await this._cartService.getCart()`.
ConnectedCallback ==
    /\ cartPc = "constructed"
    /\ cartPc' = "loading"
    /\ UNCHANGED <<items, rendered, removals, clicks, deleted>>

\* getCart() settles: its answer, or [] when it rejects; then render().
CartLoaded ==
    /\ cartPc = "loading"
    /\ \E cart \in Carts :
          /\ items' = cart
          /\ rendered' = Render(cart)
    /\ cartPc' = "shown"
    /\ UNCHANGED <<removals, clicks, deleted>>

\* A click on the index-th remove button of the current rendering:
\* removeItem(index) up to its first await.  A missing item makes
\* `item.gameId` throw inside the try; the catch logs it and
\* updateBackendCart() is called straight away.
RemoveItem(index) ==
    /\ cartPc = "shown"
    /\ Len(clicks) < MaxClicks
    /\ index \in 1..Len(rendered)
    /\ LET item == ItemAt(items, index)
       IN  /\ items' = Splice(items, index)
           /\ clicks' = Append(clicks, [renderedFor |-> rendered[index],
                                        item |-> item,
                                        removed |-> Len(items) - Len(Splice(items, index)),
                                        sent |-> item # Undefined])
           /\ IF item = Undefined
              THEN /\ removals' = Append(removals, [item |-> item, at |-> "updateCart"])
                   /\ UNCHANGED deleted
              ELSE /\ removals' = Append(removals, [item |-> item, at |-> "deleteCartItem"])
                   /\ deleted' = Append(deleted, item)
    /\ UNCHANGED <<cartPc, rendered>>

Click == \E index \in 1..MaxCart : RemoveItem(index)

Without(seq, k) == [j \in 1..(Len(seq) - 1) |-> IF j < k THEN seq[j] ELSE seq[j + 1]]

\* deleteCartItem() of a removeItem in flight settles; resolved or rejected
\* (the catch only logs), updateCart(this.items) is sent next.
DeleteSettles ==
    /\ \E k \in 1..Len(removals) :
          /\ removals[k].at = "deleteCartItem"
          /\ removals' = [removals EXCEPT ![k].at = "updateCart"]
    /\ UNCHANGED <<cartPc, items, rendered, clicks, deleted>>

\* updateCart() of a removeItem in flight settles; resolved or rejected
\* (updateBackendCart only logs), removeItem ends with render().
UpdateSettles ==
    /\ \E k \in 1..Len(removals) :
          /\ removals[k].at = "updateCart"
          /\ removals' = Without(removals, k)
    /\ rendered' = Render(items)
    /\ UNCHANGED <<cartPc, items, clicks, deleted>>

\* ---------------------------------------------------- GameService.getGames
\* SQL text is a sequence of fragments; "?" is a placeholder.  The empty
\* string is the empty sequence, and is the only falsy text.
NoOptions ==
    [tagsGiven |-> FALSE, tags |-> <<>>, minPrice |-> Absent, maxPrice |-> Absent,
     page |-> 1, limit |-> 1, sortBy |-> "", sort |-> "asc"]

\* `if (x)` on an optional number: undefined and 0 are falsy.
Truthy(x) == x # Absent /\ x # 0

\* getGameBaseQuery(): no placeholder in it.
GetGameBaseQuery == << "SELECT g.id, ..., images, tags FROM games g" >>

\* `const offset = (options.page - 1) * options.limit`
Offset(o) == (o.page - 1) * o.limit

\* sortByQuery
SortByQuery(o) ==
    << "ORDER BY",
       IF o.sortBy # "" THEN "g." \o o.sortBy ELSE "g.name",
       IF o.sort = "desc" THEN "DESC" ELSE "ASC" >>

\* `options.tags && options.tags.length > 0`
HasTags(o) == o.tagsGiven /\ Len(o.tags) > 0

\* Faulty variant: one placeholder whatever the number of tags.
OnePlaceholder(tags) == << "?" >>

\* `options.tags.map(() => "?").join(",")`
RECURSIVE TagPlaceholders(_)
TagPlaceholders(tags) ==
    IF Len(tags) = 0 THEN <<>>
    ELSE IF Len(tags) = 1 THEN << "?" >>
    ELSE << "?", "," >> \o TagPlaceholders(Tail(tags))

\* `whereClause += whereClause ? " AND " : "WHERE "; whereClause += cond`
AddCondition(whereClause, cond) ==
    whereClause \o (IF whereClause # <<>> THEN << "AND" >> ELSE << "WHERE" >>) \o cond

WhereAfterTags(o) ==
    IF HasTags(o)
    THEN AddCondition(<<>>, << "gt.tagId IN (" >> \o TagPlaceholders(o.tags) \o << ")" >>)
    ELSE <<>>

WhereAfterMin(o) ==
    IF Truthy(o.minPrice)
    THEN AddCondition(WhereAfterTags(o), << "g.price >=", "?" >>)
    ELSE WhereAfterTags(o)

\* whereClause as it stands before the try block
WhereClause(o) ==
    IF Truthy(o.maxPrice)
    THEN AddCondition(WhereAfterMin(o), << "g.price <=", "?" >>)
    ELSE WhereAfterMin(o)

\* whereClauseValues as it stands before the try block
WhereClauseValues(o) ==
    (IF HasTags(o) THEN o.tags ELSE <<>>)
        \o (IF Truthy(o.minPrice) THEN << o.minPrice >> ELSE <<>>)
        \o (IF Truthy(o.maxPrice) THEN << o.maxPrice >> ELSE <<>>)

\* tagJoin
TagJoin(o) ==
    IF HasTags(o) THEN << "JOIN games_tags gt ON g.id = gt.gameId" >> ELSE <<>>

\* `query` and the parameters it is sent with
ItemsQuery(o) ==
    [text |-> GetGameBaseQuery \o TagJoin(o) \o WhereClause(o) \o << "GROUP BY g.id" >>
                \o SortByQuery(o) \o << "LIMIT", "?", "OFFSET", "?" >>,
     params |-> WhereClauseValues(o) \o << o.limit, Offset(o) >>]

\* `countQuery` and the parameters it is sent with
CountQuery(o) ==
    [text |-> << "SELECT COUNT(DISTINCT g.id) AS totalCount FROM games g" >>
                \o TagJoin(o) \o WhereClause(o),
     params |-> WhereClauseValues(o)]

TagLists ==
    UNION { [1..n -> 1..MaxTags] : n \in 0..MaxTags }

OptionsSet ==
    [tagsGiven : {TRUE}, tags : TagLists,
     minPrice : {Absent} \cup 0..MaxPrice, maxPrice : {Absent} \cup 0..MaxPrice,
     page : 1..MaxPage, limit : 1..MaxPage, sortBy : {"", "price"}, sort : {"asc", "desc"}]
    \cup
    [tagsGiven : {FALSE}, tags : {<<>>},
     minPrice : {Absent} \cup 0..MaxPrice, maxPrice : {Absent} \cup 0..MaxPrice,
     page : 1..MaxPage, limit : 1..MaxPage, sortBy : {"", "price"}, sort : {"asc", "desc"}]

\* getGames(options) up to its first query: openConnection() rejects, or it
\* resolves and the items query is sent.
GetGames ==
    /\ gamesPc = "idle"
    /\ \E o \in OptionsSet :
          /\ options' = o
          /\ \/ /\ sent' = << ItemsQuery(o) >>
                /\ gamesPc' = "items"
                /\ gamesOutcome' = "none"
             \/ /\ sent' = <<>>
                /\ gamesPc' = "done"
                /\ gamesOutcome' = "ConnectionError"

\* The items query settles: rejected, the finally block releases and the
\* error propagates; resolved, the count query is sent.
ItemsSettle ==
    /\ gamesPc = "items"
    /\ \/ /\ sent' = Append(sent, CountQuery(options))
          /\ gamesPc' = "count"
          /\ UNCHANGED gamesOutcome
       \/ /\ gamesPc' = "done"
          /\ gamesOutcome' = "QueryError"
          /\ UNCHANGED sent
    /\ UNCHANGED options

\* The count query settles; the finally block releases.
CountSettle ==
    /\ gamesPc = "count"
    /\ gamesPc' = "done"
    /\ gamesOutcome' \in {"returned", "QueryError"}
    /\ UNCHANGED <<options, sent>>

\* ------------------------------------------------------------------ spec
SeederInit ==
    /\ devMode \in BOOLEAN
    /\ overridesDev \in BOOLEAN
    /\ held = {}
    /\ fkChecks = [c \in Conns |-> TRUE]
    /\ rows = [t \in Tables |-> IF t = Table THEN {} ELSE {1}]
    /\ autoInc = FirstInsertId
    /\ heap = <<>>
    /\ groups = <<>>
    /\ pc = "idle"
    /\ op = "none"
    /\ count = 0
    /\ seederRecords = <<>>
    /\ conn = NoConn
    /\ records = <<>>
    /\ result = NoResult
    /\ step = 0
    /\ outcome = "none"
    /\ returned = <<>>
    /\ log = <<>>
    /\ genCalls = <<>>
    /\ calls = 0

CartInit ==
    /\ cartPc = "constructed"
    /\ items = <<>>
    /\ rendered = <<>>
    /\ removals = <<>>
    /\ clicks = <<>>
    /\ deleted = <<>>

GamesInit ==
    /\ gamesPc = "idle"
    /\ options = NoOptions
    /\ sent = <<>>
    /\ gamesOutcome = "none"

\* The seeder on its own: the page component is not running.
Init == SeederInit /\ CartInit /\ GamesInit

Next ==
    \/ SeedCall /\ UNCHANGED <<cartVars, gamesVars>>
    \/ SeedGenerate /\ UNCHANGED <<cartVars, gamesVars>>
    \/ SeedInsertSettles /\ UNCHANGED <<cartVars, gamesVars>>
    \/ TruncateCall /\ UNCHANGED <<cartVars, gamesVars>>
    \/ TruncateQuerySettles /\ UNCHANGED <<cartVars, gamesVars>>
    \/ CallerContinues /\ UNCHANGED <<cartVars, gamesVars>>

Spec == Init /\ [][Next]_allVars

\* The page component on its own: no seeder is running.
CartSpecInit == SeederInit /\ ~devMode /\ ~overridesDev /\ CartInit /\ GamesInit

CartNext ==
    \/ ConnectedCallback /\ UNCHANGED <<vars, gamesVars>>
    \/ CartLoaded /\ UNCHANGED <<vars, gamesVars>>
    \/ Click /\ UNCHANGED <<vars, gamesVars>>
    \/ DeleteSettles /\ UNCHANGED <<vars, gamesVars>>
    \/ UpdateSettles /\ UNCHANGED <<vars, gamesVars>>

SpecCart == CartSpecInit /\ [][CartNext]_allVars

\* getGames on its own.
GamesNext ==
    \/ GetGames /\ UNCHANGED <<vars, cartVars>>
    \/ ItemsSettle /\ UNCHANGED <<vars, cartVars>>
    \/ CountSettle /\ UNCHANGED <<vars, cartVars>>

SpecGames == CartSpecInit /\ [][GamesNext]_allVars

\* ---------------------------------------------------------- observations
Queries == SelectSeq(log, LAMBDA e : e.type = "query")

Releases == SelectSeq(log, LAMBDA e : e.type = "release")

Issued(kind) == \E i \in 1..Len(log) : log[i].type = "query" /\ log[i].stmt.kind = kind

IsPrefix(s, t) == Len(s) <= Len(t) /\ \A i \in 1..Len(s) : s[i] = t[i]

Settled(o) == pc = "done" /\ op = o

\* The insert of the running seed was answered with a ResultSetHeader.
InsertAnswered ==
    Settled("seed") /\ outcome \in {"returned", "InsertCountMismatch"} /\ Len(records) > 0

NoneIdentified == \A i \in 1..Len(records) : heap[records[i]].id = NoId

\* ------------------------------------------------------------------- C1
\* C1: truncate() restores enforcement: once the row removal has been issued
\* (so the 'disable foreign-key checks' query was issued and took effect), the
\* 'enable foreign-key checks' query has been issued and enforcement is on
\* again on that connection when truncate returns or throws.
C1_EnableFollowsDisable ==
    (Settled("truncate") /\ Issued("TRUNCATE TABLE"))
        => /\ Issued("SET FOREIGN_KEY_CHECKS = 0")
           /\ Issued("SET FOREIGN_KEY_CHECKS = 1")
           /\ fkChecks[conn]

\* ------------------------------------------------------------------- C2
\* C2: a seed() call that acquired a connection has released it exactly once
\* when it returns or throws.
C2_SeedReleasesOnce ==
    (Settled("seed") /\ conn # NoConn) => Len(Releases) = 1

\* ------------------------------------------------------------------- C3
IdentifiedInOrder ==
    /\ returned = records
    /\ \A i \in 1..Len(returned) :
          /\ heap[returned[i]].id # NoId
          /\ heap[returned[i]].id = result.insertId + (i - 1)
    /\ \A i, j \in 1..Len(returned) :
          i # j => heap[returned[i]].id # heap[returned[j]].id

\* C3 as stated: a seed() that returns a non-empty batch returns exactly
\* `count` records, identified start, start + 1, ... in generation order.
C3_ReturnsCountRecords ==
    (Settled("seed") /\ outcome = "returned" /\ Len(records) > 0)
        => (Len(returned) = count /\ IdentifiedInOrder)

\* C3 amended: a seed() that returns a non-empty batch returns exactly the
\* records the generator produced (count of them when the generator produced
\* count), none of which had an identifier while the insert was in flight,
\* identified start, start + 1, ... in generation order, pairwise distinct.
C3_ReturnsGeneratedRecords ==
    /\ (op = "seed" /\ pc = "seed_insert") => NoneIdentified
    /\ (Settled("seed") /\ outcome = "returned" /\ Len(records) > 0)
          => /\ Len(returned) = Len(records)
             /\ Len(records) = count => Len(returned) = count
             /\ IdentifiedInOrder

C3_Witness ==
    /\ Settled("seed") /\ outcome = "returned"
    /\ count = 2 /\ Len(returned) = 2
    /\ heap[returned[1]].id = FirstInsertId
    /\ heap[returned[2]].id = FirstInsertId + 1

\* ------------------------------------------------------------------- C4
\* C4 as stated: an affected-row count different from `count` makes seed fail
\* with the insert-count-mismatch error, no record identified.
C4_MismatchAgainstCount ==
    (InsertAnswered /\ result.affectedRows # count)
        => (outcome = "InsertCountMismatch" /\ NoneIdentified)

\* C4 amended: an affected-row count different from the number of records the
\* generator produced makes seed fail with the insert-count-mismatch error
\* instead of returning, no record of the batch identified or returned.
C4_MismatchAgainstBatch ==
    (InsertAnswered /\ result.affectedRows # Len(records))
        => (outcome = "InsertCountMismatch" /\ NoneIdentified /\ returned = <<>>)

C4_Witness ==
    /\ InsertAnswered
    /\ Len(records) = 1 /\ result.affectedRows = 2
    /\ outcome = "InsertCountMismatch"

\* ------------------------------------------------------------------- C5
GeneratorReturned == op = "seed" /\ genCalls # <<>> /\ outcome # "GeneratorError"

EmptyReturnNoQuery ==
    /\ Queries = <<>>
    /\ pc = "done"
    /\ outcome = "returned"
    /\ returned = <<>>

\* C5 as stated: with count = 0, or with a generator that produced zero
\* records, seed returns the empty sequence and no query reaches the database.
C5_EmptyOnZeroCount ==
    (GeneratorReturned /\ (count = 0 \/ Len(records) = 0)) => EmptyReturnNoQuery

\* C5 amended: when the selected generator produced zero records (whatever
\* count was), seed returns the empty sequence without an error and no query
\* of any kind reaches the database in that call.
C5_EmptyOnEmptyBatch ==
    (GeneratorReturned /\ Len(records) = 0) => EmptyReturnNoQuery

C5_Witness ==
    /\ GeneratorReturned /\ Len(records) = 0 /\ count = 2
    /\ pc = "done" /\ outcome = "returned"

\* ------------------------------------------------------------------- C6
ThreeSteps ==
    << "SET FOREIGN_KEY_CHECKS = 0", "TRUNCATE TABLE", "SET FOREIGN_KEY_CHECKS = 1" >>

QueryKinds == [i \in 1..Len(Queries) |-> Queries[i].stmt.kind]

\* C6: the queries of a truncate() are, in order, a prefix of disable / remove
\* all rows of the seeder's own table / enable (all three when it returns),
\* all on the connection it acquired, one in flight at a time, nothing else;
\* while the row removal is in flight enforcement is off on that connection.
C6_StrictThreeSteps ==
    op = "truncate" =>
        /\ IsPrefix(QueryKinds, ThreeSteps)
        /\ \A i \in 1..Len(Queries) :
              /\ Queries[i].conn = conn
              /\ Queries[i].stmt.kind = "TRUNCATE TABLE" => Queries[i].stmt.table = "games"
        /\ pc = "truncate_query" => Len(Queries) = step
        /\ (pc = "truncate_query" /\ QueryKinds[Len(Queries)] = "TRUNCATE TABLE")
              => ~fkChecks[conn]
        /\ (pc = "done" /\ outcome = "returned") => (QueryKinds = ThreeSteps /\ rows["games"] = {})

C6_Witness ==
    /\ Settled("truncate") /\ outcome = "returned"
    /\ Len(Queries) = 3
    /\ calls = 2 /\ autoInc > FirstInsertId

\* ------------------------------------------------------------------- C7
CallsOf(fn) == SelectSeq(genCalls, LAMBDA g : g.fn = fn)

CallsBy(caller) == SelectSeq(genCalls, LAMBDA g : g.caller = caller)

\* C7: seed calls exactly one generator itself, getRecordsDev in development
\* mode and getRecords otherwise; in development mode getRecords is reached
\* only through the default getRecordsDev; a seeder that does not override
\* getRecordsDev has getRecords invoked once with seed's own count and prior
\* groups in either mode, and seed's records are what that invocation returned.
C7_GeneratorByMode ==
    (op = "seed" /\ genCalls # <<>>) =>
        /\ Len(CallsBy("seed")) = 1
        /\ devMode => CallsBy("seed")[1].fn = "getRecordsDev"
        /\ ~devMode => (genCalls[1].fn = "getRecords" /\ Len(genCalls) = 1)
        /\ (devMode /\ overridesDev) => CallsOf("getRecords") = <<>>
        /\ ~overridesDev =>
              /\ Len(CallsOf("getRecords")) = 1
              /\ CallsOf("getRecords")[1].count = count
              /\ CallsOf("getRecords")[1].groups = seederRecords
              /\ CallsOf("getRecords")[1].ret = records

C7_Witness ==
    /\ op = "seed" /\ devMode /\ ~overridesDev
    /\ Len(genCalls) = 2
    /\ Len(records) = 2 /\ Len(seederRecords) = 1

\* ------------------------------------------------------------------- C8
SeedRunning == op = "seed" /\ pc \in {"seed_generate", "seed_insert"}

Batch(recs) == { recs[i] : i \in 1..Len(recs) }

\* C8: the generator receives seed's prior groups as passed (same groups,
\* same order, same references); and no step of seed changes the caller's
\* groups, the argument, or any record object outside the current batch.
C8_UpstreamUntouched ==
    /\ [](\A i \in 1..Len(genCalls) :
            genCalls[i].caller = "seed" => genCalls[i].groups = seederRecords)
    /\ [][SeedRunning =>
            /\ groups' = groups
            /\ seederRecords' = seederRecords
            /\ \A r \in 1..Len(heap) : r \notin Batch(records') => heap'[r] = heap[r]
            /\ \A g \in 1..Len(seederRecords) : \A k \in 1..Len(seederRecords[g]) :
                  heap'[seederRecords[g][k]] = heap[seederRecords[g][k]]]_vars

C8_Witness ==
    /\ Settled("seed") /\ outcome = "returned"
    /\ Len(seederRecords) = 1 /\ Len(seederRecords[1]) = 2
    /\ Len(returned) = 2
    /\ heap[seederRecords[1][1]].id = FirstInsertId

\* ------------------------------------------------------------------- C9
\* C9: a seed() issues no query but its insert, at most once and exactly once
\* for a non-empty batch, carrying every record's value tuple in generation
\* order; when the insert raises, seed ends with that error, with no further
\* query, no record identified and nothing returned.
C9_OneInsert ==
    op = "seed" =>
        /\ Len(Queries) <= 1
        /\ \A i \in 1..Len(Queries) :
              /\ Queries[i].stmt.kind = "insert"
              /\ Queries[i].stmt.table = "games"
              /\ Queries[i].conn = conn
              /\ Queries[i].stmt.columns = <<"name", "price">>
              /\ Len(Queries[i].stmt.values) = Len(records)
              /\ \A k \in 1..Len(records) :
                    Queries[i].stmt.values[k] =
                        <<heap[records[k]].name, heap[records[k]].price>>
        /\ Len(records) > 0 => Len(Queries) = 1
        /\ outcome = "QueryError" =>
              (pc = "done" /\ NoneIdentified /\ returned = <<>>)

C9_Witness ==
    /\ Settled("seed") /\ outcome = "QueryError"
    /\ Len(records) = 2 /\ Len(Queries) = 1

\* ------------------------------------------------------------------ C10
\* C10: a truncate() that acquired a connection holds it while a query is in
\* flight and has released it exactly once, as its last act, when it returns
\* or throws; no query follows a release; a failed acquisition ends the call
\* with the connection error and nothing issued.
C10_TruncateReleasesOnce ==
    op = "truncate" =>
        /\ Len(Releases) <= 1
        /\ \A i, j \in 1..Len(log) :
              (i < j /\ log[i].type = "release") => log[j].type # "query"
        /\ pc = "truncate_query" => (Releases = <<>> /\ conn \in held)
        /\ (pc = "done" /\ conn # NoConn) =>
              /\ Len(Releases) = 1
              /\ log[Len(log)] = Release(conn)
              /\ conn \notin held
              /\ outcome \in {"returned", "QueryError"}
        /\ (pc = "done" /\ conn = NoConn) => (outcome = "ConnectionError" /\ log = <<>>)

C10_Witness ==
    /\ Settled("truncate") /\ outcome = "QueryError"
    /\ Len(Queries) = 2 /\ Len(Releases) = 1

\* ------------------------------------------------------------------ C11
\* C11: every click on a remove button removes exactly the item the button
\* was rendered for and sends that item's gameId to deleteCartItem, whatever
\* removeItem calls are still in flight; removeItem never acts on a missing
\* item.
C11_RemovesClickedItem ==
    \A k \in 1..Len(clicks) :
        /\ clicks[k].item # Undefined
        /\ clicks[k].item = clicks[k].renderedFor
        /\ clicks[k].removed = 1
        /\ clicks[k].sent

\* ------------------------------------------------------------------ C12
\* The positions of the placeholders of a text, in order.
PlaceholderPos(text) ==
    SelectSeq([i \in 1..Len(text) |-> i], LAMBDA i : text[i] = "?")

\* What a placeholder stands for, read off the fragment before it.
RoleAt(text, i) ==
    IF text[i - 1] = "LIMIT" THEN "limit"
    ELSE IF text[i - 1] = "OFFSET" THEN "offset"
    ELSE IF text[i - 1] = "g.price >=" THEN "minPrice"
    ELSE IF text[i - 1] = "g.price <=" THEN "maxPrice"
    ELSE "tag"

RoleRank(role) ==
    IF role = "tag" THEN 1 ELSE IF role = "minPrice" THEN 2
    ELSE IF role = "maxPrice" THEN 3 ELSE IF role = "limit" THEN 4 ELSE 5

TagRank(text, i) ==
    Cardinality({ j \in 1..i : text[j] = "?" /\ RoleAt(text, j) = "tag" })

ValueFor(o, text, i) ==
    LET role == RoleAt(text, i)
    IN  IF role = "limit" THEN o.limit
        ELSE IF role = "offset" THEN (o.page - 1) * o.limit
        ELSE IF role = "minPrice" THEN o.minPrice
        ELSE IF role = "maxPrice" THEN o.maxPrice
        ELSE IF TagRank(text, i) <= Len(o.tags) THEN o.tags[TagRank(text, i)]
        ELSE Absent

\* As many parameters as placeholders, the k-th parameter being the value the
\* k-th placeholder stands for, tags before minPrice before maxPrice before
\* limit before offset.
BoundPositionally(q, o) ==
    LET pos == PlaceholderPos(q.text)
    IN  /\ Len(pos) = Len(q.params)
        /\ \A k \in 1..Len(pos) : q.params[k] = ValueFor(o, q.text, pos[k])
        /\ \A k \in 1..(Len(pos) - 1) :
              RoleRank(RoleAt(q.text, pos[k])) <= RoleRank(RoleAt(q.text, pos[k + 1]))

NumFilters(o) ==
    (IF o.tagsGiven /\ o.tags # <<>> THEN 1 ELSE 0)
        + (IF o.minPrice \notin {Absent, 0} THEN 1 ELSE 0)
        + (IF o.maxPrice \notin {Absent, 0} THEN 1 ELSE 0)

CountOf(text, frag) == Cardinality({ i \in 1..Len(text) : text[i] = frag })

ConditionStarts == { "gt.tagId IN (", "g.price >=", "g.price <=" }

\* One WHERE (none without a filter) followed by the conditions, AND between
\* two conditions and nowhere else.
WhereShape(text, o) ==
    /\ CountOf(text, "WHERE") = (IF NumFilters(o) > 0 THEN 1 ELSE 0)
    /\ CountOf(text, "AND") = (IF NumFilters(o) > 0 THEN NumFilters(o) - 1 ELSE 0)
    /\ Cardinality({ i \in 1..Len(text) : text[i] \in ConditionStarts }) = NumFilters(o)
    /\ \A i \in 1..Len(text) :
          /\ text[i] \in {"WHERE", "AND"} => (i < Len(text) /\ text[i + 1] \in ConditionStarts)
          /\ text[i] = "AND" => text[i - 1] \in {")", "?"}
          /\ text[i] \in ConditionStarts => text[i - 1] \in {"WHERE", "AND"}
    /\ (\E i \in 1..Len(text) : text[i] = "JOIN games_tags gt ON g.id = gt.gameId")
          <=> (o.tagsGiven /\ o.tags # <<>>)

GroupByPos(text) == CHOOSE i \in 1..Len(text) : text[i] = "GROUP BY g.id"

\* C12: the items query of getGames has as many placeholders as parameters,
\* bound positionally (tag ids, minPrice, maxPrice, limit, offset =
\* (page - 1) * limit); the count query has the same join and WHERE clause
\* with the same filter parameters and neither LIMIT nor OFFSET; the WHERE
\* clause starts with one WHERE and joins its conditions with AND.
C12_PlaceholdersMatchParams ==
    /\ Len(sent) >= 1 =>
          /\ BoundPositionally(sent[1], options)
          /\ WhereShape(sent[1].text, options)
          /\ Len(sent[1].params) >= 2
          /\ sent[1].params[Len(sent[1].params) - 1] = options.limit
          /\ sent[1].params[Len(sent[1].params)] = (options.page - 1) * options.limit
    /\ Len(sent) = 2 =>
          /\ BoundPositionally(sent[2], options)
          /\ WhereShape(sent[2].text, options)
          /\ Tail(sent[2].text) = SubSeq(sent[1].text, 2, GroupByPos(sent[1].text) - 1)
          /\ sent[2].params = SubSeq(sent[1].params, 1, Len(sent[1].params) - 2)
          /\ CountOf(sent[2].text, "LIMIT") = 0
          /\ CountOf(sent[2].text, "OFFSET") = 0
    /\ Len(sent) <= 2

C12_Witness ==
    /\ gamesPc = "done" /\ gamesOutcome = "returned"
    /\ options.tags = <<2, 1>> /\ options.minPrice = 0 /\ options.maxPrice = 2
    /\ options.page = 2 /\ options.limit = 2
    /\ sent[1].params = <<2, 1, 2, 2, 2>>
    /\ sent[2].params = <<2, 1, 2>>

====
